---- MODULE Spec2Model ----
(***************************************************************************)
(* A model of the file-hashing crate: get_hash_file streaming one file     *)
(* into a caller-owned incremental hash, and get_hash_files dispatching    *)
(* one job per path to a rayon pool with ThreadPool::install, then         *)
(* reporting one progress event per job and returning the hex digest.      *)
(*                                                                         *)
(* The accumulator is modelled by the sequence of bytes it has been fed    *)
(* (update appends); finalize maps that sequence to a one-byte digest, and *)
(* HEXLOWER turns each digest byte into two ASCII hex characters.          *)
(***************************************************************************)
EXTENDS Integers, Sequences, FiniteSets, TLC

\* ------------------------------------------------------------------ bounds
MaxPaths == 3       \* longest path list handed to get_hash_files
MaxThreads == 2     \* largest num_threads
MaxRuns == 2        \* calls of get_hash_files made over the same inputs
PAGE_SIZE == 2      \* size of the read buffer (scaled down)
MaxLivePaths == 2   \* longest path list of the runs checked for termination
MaxDirs == 2        \* longest list of roots handed to get_hash_folders

\* ------------------------------------------------------- the file system
\* What File::open and file.read see.  Every file has a content; open_err is
\* the error kind File::open returns ("" when it succeeds); read_err_at is
\* the offset at which file.read returns read_err (-1: never).
Files == {"a", "b", "empty", "missing", "bad"}

FS ==
  [f \in Files |->
     CASE f = "a"       -> [content |-> <<1>>, open_err |-> "",
                            read_err_at |-> -1, read_err |-> ""]
       [] f = "b"       -> [content |-> <<2, 3, 4>>, open_err |-> "",
                            read_err_at |-> -1, read_err |-> ""]
       [] f = "empty"   -> [content |-> <<>>, open_err |-> "",
                            read_err_at |-> -1, read_err |-> ""]
       [] f = "missing" -> [content |-> <<>>, open_err |-> "NotFound",
                            read_err_at |-> -1, read_err |-> ""]
       [] f = "bad"     -> [content |-> <<5, 6, 7>>, open_err |-> "",
                            read_err_at |-> 1, read_err |-> "Other"]]

\* The accumulator contents a caller may pass in: fresh, or already used.
InitialHashes == {<<>>, <<9>>}

RECURSIVE SeqsUpTo(_, _)
SeqsUpTo(S, n) ==
  IF n = 0 THEN {<<>>}
  ELSE LET shorter == SeqsUpTo(S, n - 1)
       IN  shorter \cup {Append(s, x) : s \in shorter, x \in S}

PathLists == SeqsUpTo(Files, MaxPaths)

Min(a, b) == IF a < b THEN a ELSE b

\* ------------------------------------------------------ the directories
\* What WalkDir yields for the entries of a directory, in the order the
\* file system lists them.  kind is "file" (a regular file, name is its
\* path), "dir" (a subdirectory that is walked), "symlink", "special",
\* "error" (the walk yields Err: unreadable subdirectory, nonexistent root)
\* or "vanished" (yielded Ok, but gone when metadata() is called).
Roots == {"d1", "sub", "d_empty", "nodir", "d_race"}

Entry(kind, name) == [kind |-> kind, name |-> name]

Tree ==
  [d \in Roots |->
     CASE d = "d1"      -> <<Entry("file", "a"), Entry("error", "locked"),
                             Entry("dir", "sub"), Entry("symlink", "link")>>
       [] d = "sub"     -> <<Entry("file", "b"), Entry("special", "fifo"),
                             Entry("file", "missing")>>
       [] d = "d_empty" -> <<>>
       [] d = "nodir"   -> <<Entry("error", "nodir")>>
       [] d = "d_race"  -> <<Entry("file", "empty"),
                             Entry("vanished", "tmp")>>]

DirLists == SeqsUpTo(Roots, MaxDirs)

\* ---------------------------------------------------------------- fs.rs
\* WalkDir::new(path).into_iter(): the root, then its entries depth-first;
\* WalkEntries(<<d, n>>) is what the n-th and later entries of d yield.
RECURSIVE WalkEntries(_)
WalkEntries(at) ==
  LET d == at[1]
      n == at[2]
  IN  IF n > Len(Tree[d]) THEN <<>>
      ELSE LET e == Tree[d][n]
           IN  <<e>> \o (IF e.kind = "dir" THEN WalkEntries(<<e.name, 1>>)
                         ELSE <<>>)
                   \o WalkEntries(<<d, n + 1>>)

\* A root that cannot be read yields its error and nothing else.
WalkDir(d) ==
  IF Tree[d] = <<Entry("error", d)>> THEN Tree[d]
  ELSE <<Entry("dir", d)>> \o WalkEntries(<<d, 1>>)

\* .filter_map(|file| file.ok())
IsOk(e) == e.kind # "error"

\* normal_file.metadata().unwrap().is_file(): the unwrap panics when the
\* metadata cannot be read.
MetadataFails(e) == e.kind = "vanished"
is_file(e) == e.kind = "file"

RECURSIVE into_paths(_)
into_paths(es) ==
  IF es = <<>> THEN <<>> ELSE <<es[1].name>> \o into_paths(Tail(es))

\* get_all_file_from_folder: the list returned, or a panic.
get_all_file_from_folder(d) ==
  LET oks == SelectSeq(WalkDir(d), IsOk)
  IN  [panic |-> \E x \in 1 .. Len(oks) : MetadataFails(oks[x]),
       files |-> into_paths(SelectSeq(oks, is_file))]

\* -------------------------------------------------------------- folder.rs
\* folder.rs 88-92: paths.append(get_all_file_from_folder(dir)) for each dir
\* (collect_folders_last: the list of the last dir alone, as an assignment
\* in place of the append would give; collect_folders_dedup: a path is
\* appended only when it is not in the list yet).
RECURSIVE collect_folders(_)
collect_folders_dedup(ds) ==
  IF ds = <<>> THEN [panic |-> FALSE, files |-> <<>>]
  ELSE LET before == collect_folders(SubSeq(ds, 1, Len(ds) - 1))
           this == get_all_file_from_folder(ds[Len(ds)])
           IsNew(f) == \A x \in 1 .. Len(before.files) : before.files[x] # f
       IN  [panic |-> before.panic \/ this.panic,
            files |-> before.files \o SelectSeq(this.files, IsNew)]
collect_folders_last(ds) ==
  IF ds = <<>> THEN [panic |-> FALSE, files |-> <<>>]
  ELSE LET before == collect_folders(SubSeq(ds, 1, Len(ds) - 1))
           this == get_all_file_from_folder(ds[Len(ds)])
       IN  [panic |-> before.panic \/ this.panic, files |-> this.files]
collect_folders(ds) ==
  IF ds = <<>> THEN [panic |-> FALSE, files |-> <<>>]
  ELSE LET before == collect_folders(SubSeq(ds, 1, Len(ds) - 1))
           this == get_all_file_from_folder(ds[Len(ds)])
       IN  [panic |-> before.panic \/ this.panic,
            files |-> before.files \o this.files]

\* ------------------------------------------------ the hash primitive
\* DynDigest::update: append the data to what the accumulator has seen.
update(h, data) == h \o data

\* Clone: a snapshot of the accumulator.
clone(h) == h

\* DynDigest::finalize: the digest bytes of everything seen so far (an
\* order-sensitive one-byte digest stands for Blake2s256).
RECURSIVE Mix(_)
Mix(h) ==
  IF h = <<>> THEN 7
  ELSE (31 * Mix(SubSeq(h, 1, Len(h) - 1)) + h[Len(h)] + 1) % 256

finalize(h) == <<Mix(h)>>

\* ------------------------------------------------------- encoding.rs
\* One lowercase hex digit as its ASCII code (HexDigitUpper: the digit of
\* the uppercase alphabet).
HexDigitUpper(d) == IF d < 10 THEN 48 + d ELSE 55 + d
HexDigit(d) == IF d < 10 THEN 48 + d ELSE 87 + d

RECURSIVE HEXLOWER_encode(_)
HEXLOWER_encode(bytes) ==
  IF bytes = <<>> THEN <<>>
  ELSE <<HexDigit(bytes[1] \div 16), HexDigit(bytes[1] % 16)>>
         \o HEXLOWER_encode(SubSeq(bytes, 2, Len(bytes)))

\* get_lowerhex: finalize a clone, encode; the accumulator is not changed.
get_lowerhex(h) == HEXLOWER_encode(finalize(clone(h)))

\* The accumulator after get_lowerhex(&mut hash): the clone was finalized,
\* hash itself was not touched.
after_lowerhex_reset(h) == <<>>
after_lowerhex(h) == h

\* String::as_bytes on an ASCII string: the same codes (as_bytes_none: no
\* bytes at all, the hex string is not fed back).
as_bytes_none(s) == <<>>
as_bytes(s) == s

\* ------------------------------------------------------------- file.rs
\* File::open(path)?: the error of the open, passed on as it is
\* (OpenErrorGeneric: wrapped into an error of kind Other).
OpenErrorGeneric(f) == IF FS[f].open_err # "" THEN "Other" ELSE ""
OpenError(f) == FS[f].open_err

\* file.read(&mut buf)? fails at this offset.
ReadFails(f, pos) == FS[f].read_err_at = pos

\* The byte counts file.read may return at this offset: 0 only at end of
\* file, otherwise anything from 1 to what fits the buffer and is readable.
ReadSizes(f, pos) ==
  LET limit == IF FS[f].read_err_at >= 0 THEN FS[f].read_err_at
               ELSE Len(FS[f].content)
  IN  IF pos >= limit THEN {0} ELSE 1 .. Min(PAGE_SIZE, limit - pos)

\* &buf[0..i] after a read of i bytes at pos (ChunkWholeBuf: the whole
\* zero-initialised buffer after a short first read).
ChunkWholeBuf(f, pos, i) ==
  IF i = 0 THEN <<>>
  ELSE SubSeq(FS[f].content, pos + 1, pos + i)
         \o [x \in 1 .. (PAGE_SIZE - i) |-> 0]
Chunk(f, pos, i) == SubSeq(FS[f].content, pos + 1, pos + i)

\* paths.is_empty()
is_empty_never(p) == FALSE
is_empty(p) == Len(p) = 0

\* ThreadPoolBuilder::new().num_threads(n).build() returns Err when the
\* worker threads cannot be created: here, when more are asked for than the
\* system lets a pool have.
BuildFails(n) == n > MaxThreads

\* The num_threads values a caller passes: those the pool is built with and
\* one that build() rejects.
ThreadCounts == 1 .. (MaxThreads + 1)

\* Where the calling thread is after .build().unwrap() met an Err: the
\* unwrap panics (BuildErrorPassedOver: the call carries on to the submit
\* loop as if the pool were there).
BuildErrorPassedOver == "submit"
OnBuildError == "build_panicked"

\* Where the calling thread is after pool.install(job): install blocks the
\* caller until the job has run to completion inside the pool.
AfterInstallSpawn == "submit"
AfterInstall == "blocked"

\* Where the calling thread goes once install has returned the job's
\* result: on to the next path, whatever the result.
AfterJobAbort(res) == IF res = "Ok" THEN "submit" ELSE "report"
AfterJob(res) == "submit"

\* jobs.push(result)
PushFront(v, res) == <<res>> \o v
Push(v, res) == Append(v, res)

\* done_files += 1, for every job of the report loop.
NextDoneOnSuccess(done, res) == IF res = "Ok" THEN done + 1 ELSE done
NextDone(done, res) == done + 1

NoResult == [tag |-> "None", kind |-> "", hex |-> <<>>]
Err(kind) == [tag |-> "Err", kind |-> kind, hex |-> <<>>]
Ok(hex) == [tag |-> "Ok", kind |-> "", hex |-> hex]

\* ProgressInfo::Yield(n) / ProgressInfo::Error(e)
Yield(n) == [tag |-> "Yield", n |-> n, kind |-> ""]
Error(kind) == [tag |-> "Error", n |-> 0, kind |-> kind]

\* The match of the report loop, done being done_files after the increment.
ProgressEventBeforeIncrement(res, done) ==
  IF res = "Ok" THEN Yield(done - 1) ELSE Error(res)
ProgressEvent(res, done) == IF res = "Ok" THEN Yield(done) ELSE Error(res)

NewJob == [st |-> "new", pos |-> 0, file_hash |-> <<>>, res |-> "",
           pre |-> <<>>]

\* Record that job i called hash.update (consecutive calls of one job are
\* one entry).
Note(order, i) ==
  IF order # <<>> /\ order[Len(order)] = i THEN order ELSE Append(order, i)

VARIABLES
  dirs,         \* the root directories given to get_hash_folder(s)
  paths,        \* the path list of the call
  num_threads,  \* the num_threads argument
  hash,         \* the caller's accumulator (bytes fed so far)
  hash0,        \* the accumulator when the first call was made
  pc,           \* where the calling thread is
  workers,      \* the pool: for each worker the job it runs (0: idle)
  queue,        \* jobs injected into the pool and not yet taken
  job,          \* per path position: the state of its job
  jobs,         \* the jobs vector: results in push order
  k,            \* report loop: jobs already reported
  done_files,   \* the done_files counter
  events,       \* progress events delivered, in order
  result,       \* the value returned by get_hash_files
  foldOrder,    \* the order in which jobs updated the accumulator
  run,          \* number of the current call
  prev          \* outcome of the previous call over the same inputs

vars == <<dirs, paths, num_threads, hash, hash0, pc, workers, queue, job, jobs,
          k, done_files, events, result, foldOrder, run, prev>>

NoPrev == [result |-> NoResult, hash |-> <<>>, events |-> <<>>,
           num_threads |-> 0, foldOrder |-> <<>>]

Init ==
  /\ dirs = <<>>
  /\ paths \in PathLists
  /\ num_threads \in 1 .. MaxThreads
  /\ hash0 \in InitialHashes
  /\ hash = hash0
  /\ pc = "call"
  /\ workers = <<>>
  /\ queue = <<>>
  /\ job = [i \in 1 .. Len(paths) |-> NewJob]
  /\ jobs = <<>>
  /\ k = 0
  /\ done_files = 0
  /\ events = <<>>
  /\ result = NoResult
  /\ foldOrder = <<>>
  /\ run = 1
  /\ prev = NoPrev

\* file.rs 94-96: the empty-list check.
CheckEmpty ==
  /\ pc = "call"
  /\ IF is_empty(paths)
       THEN /\ result' = Err("InvalidInput")
            /\ pc' = "done"
       ELSE /\ pc' = "build"
            /\ UNCHANGED result
  /\ UNCHANGED <<dirs, paths, num_threads, hash, hash0, workers, queue, job, jobs,
                 k, done_files, events, foldOrder, run, prev>>

\* file.rs 98-102: build the pool and the empty jobs vector; when build()
\* returns Err the unwrap panics and the call ends there.
BuildPool ==
  /\ pc = "build"
  /\ IF BuildFails(num_threads)
       THEN /\ pc' = OnBuildError
            /\ UNCHANGED <<workers, jobs>>
       ELSE /\ workers' = [w \in 1 .. num_threads |-> 0]
            /\ jobs' = <<>>
            /\ pc' = "submit"
  /\ UNCHANGED <<dirs, paths, num_threads, hash, hash0, queue, job, k, done_files,
                 events, result, foldOrder, run, prev>>

\* The next path of `for path in paths.iter()`.
NewJobs == {i \in DOMAIN job : job[i].st = "new"}
NextPath == CHOOSE i \in NewJobs : \A j \in NewJobs : i <= j

\* file.rs 104-105: pool.install(closure) hands the closure to the pool.
Install ==
  /\ pc = "submit"
  /\ NewJobs # {}
  /\ queue' = Append(queue, NextPath)
  /\ job' = [job EXCEPT ![NextPath].st = "queued"]
  /\ pc' = AfterInstall
  /\ UNCHANGED <<dirs, paths, num_threads, hash, hash0, workers, jobs, k,
                 done_files, events, result, foldOrder, run, prev>>

\* An idle worker of the pool takes the injected job.
WorkerTake(w) ==
  /\ w \in DOMAIN workers
  /\ workers[w] = 0
  /\ queue # <<>>
  /\ workers' = [workers EXCEPT ![w] = Head(queue)]
  /\ queue' = Tail(queue)
  /\ job' = [job EXCEPT ![Head(queue)].st = "open",
                        ![Head(queue)].pre = hash]
  /\ UNCHANGED <<dirs, paths, num_threads, hash, hash0, pc, jobs, k, done_files,
                 events, result, foldOrder, run, prev>>

\* file.rs 30: File::open(path)?
JobOpen(w) ==
  /\ w \in DOMAIN workers
  /\ workers[w] # 0
  /\ LET i == workers[w]
         f == paths[i]
     IN  /\ job[i].st = "open"
         /\ IF OpenError(f) # ""
              THEN job' = [job EXCEPT ![i].st = "ret",
                                      ![i].res = OpenError(f)]
              ELSE job' = [job EXCEPT ![i].st = "read", ![i].pos = 0]
  /\ UNCHANGED <<dirs, paths, num_threads, hash, hash0, pc, workers, queue, jobs,
                 k, done_files, events, result, foldOrder, run, prev>>

\* file.rs 33-40: one iteration of the read loop.
JobRead(w) ==
  /\ w \in DOMAIN workers
  /\ workers[w] # 0
  /\ LET i == workers[w]
         f == paths[i]
     IN  /\ job[i].st = "read"
         /\ IF ReadFails(f, job[i].pos)
              THEN /\ job' = [job EXCEPT ![i].st = "ret",
                                         ![i].res = FS[f].read_err]
                   /\ UNCHANGED <<hash, foldOrder>>
              ELSE \E n \in ReadSizes(f, job[i].pos) :
                     /\ foldOrder' = Note(foldOrder, i)
                     /\ IF n = 0
                          THEN LET h == update(hash, Chunk(f, job[i].pos, n))
                               IN  /\ job' = [job EXCEPT
                                             ![i].st = "fold",
                                             ![i].file_hash = get_lowerhex(h)]
                                   /\ hash' = after_lowerhex(h)
                          ELSE /\ hash' = update(hash, Chunk(f, job[i].pos, n))
                               /\ job' = [job EXCEPT
                                            ![i].pos = job[i].pos + n]
  /\ UNCHANGED <<dirs, paths, num_threads, hash0, pc, workers, queue, jobs, k,
                 done_files, events, result, run, prev>>

\* file.rs 107-108: hash.update(file_hash.as_bytes()); Ok(()).
JobFold(w) ==
  /\ w \in DOMAIN workers
  /\ workers[w] # 0
  /\ LET i == workers[w]
     IN  /\ job[i].st = "fold"
         /\ hash' = update(hash, as_bytes(job[i].file_hash))
         /\ foldOrder' = Note(foldOrder, i)
         /\ job' = [job EXCEPT ![i].st = "ret", ![i].res = "Ok"]
  /\ UNCHANGED <<dirs, paths, num_threads, hash0, pc, workers, queue, jobs, k,
                 done_files, events, result, run, prev>>

\* file.rs 105: install returns the closure's result, which is pushed.
InstallReturn ==
  /\ pc = "blocked"
  /\ \E w \in DOMAIN workers :
       /\ workers[w] # 0
       /\ job[workers[w]].st = "ret"
       /\ jobs' = Push(jobs, job[workers[w]].res)
       /\ job' = [job EXCEPT ![workers[w]].st = "joined"]
       /\ workers' = [workers EXCEPT ![w] = 0]
       /\ pc' = AfterJob(job[workers[w]].res)
  /\ UNCHANGED <<dirs, paths, num_threads, hash, hash0, queue, k, done_files,
                 events, result, foldOrder, run, prev>>

\* file.rs 112: let mut done_files = 0, once the submit loop is over.
BeginReport ==
  /\ pc = "submit"
  /\ NewJobs = {}
  /\ done_files' = 0
  /\ k' = 0
  /\ pc' = "report"
  /\ UNCHANGED <<dirs, paths, num_threads, hash, hash0, workers, queue, job, jobs,
                 events, result, foldOrder, run, prev>>

\* file.rs 113-120: one iteration of the report loop.
Report ==
  /\ pc = "report"
  /\ k < Len(jobs)
  /\ LET res == jobs[k + 1]
         done == NextDone(done_files, res)
     IN  /\ done_files' = done
         /\ events' = Append(events, ProgressEvent(res, done))
  /\ k' = k + 1
  /\ UNCHANGED <<dirs, paths, num_threads, hash, hash0, pc, workers, queue, job,
                 jobs, result, foldOrder, run, prev>>

\* file.rs 122: Ok(get_lowerhex(hash)).
Return ==
  /\ pc = "report"
  /\ k = Len(jobs)
  /\ result' = Ok(get_lowerhex(hash))
  /\ hash' = after_lowerhex(hash)
  /\ pc' = "done"
  /\ UNCHANGED <<dirs, paths, num_threads, hash0, workers, queue, job, jobs,
                 k, done_files, events, foldOrder, run, prev>>

\* The caller repeats the call: same path list and files, an accumulator
\* equal to the first one, any num_threads.
Rerun ==
  /\ pc = "done"
  /\ run < MaxRuns
  /\ prev' = [result |-> result, hash |-> hash, events |-> events,
              num_threads |-> num_threads, foldOrder |-> foldOrder]
  /\ run' = run + 1
  /\ num_threads' \in 1 .. MaxThreads
  /\ hash' = hash0
  /\ pc' = "call"
  /\ workers' = <<>>
  /\ queue' = <<>>
  /\ job' = [i \in 1 .. Len(paths) |-> NewJob]
  /\ jobs' = <<>>
  /\ k' = 0
  /\ done_files' = 0
  /\ events' = <<>>
  /\ result' = NoResult
  /\ foldOrder' = <<>>
  /\ UNCHANGED <<dirs, paths, hash0>>

Next ==
  \/ CheckEmpty
  \/ BuildPool
  \/ Install
  \/ \E w \in 1 .. MaxThreads : WorkerTake(w)
  \/ \E w \in 1 .. MaxThreads : JobOpen(w)
  \/ \E w \in 1 .. MaxThreads : JobRead(w)
  \/ \E w \in 1 .. MaxThreads : JobFold(w)
  \/ InstallReturn
  \/ BeginReport
  \/ Report
  \/ Return
  \/ Rerun

Spec == Init /\ [][Next]_vars

\* ------------------------------------------- get_hash_file called directly
\* The caller calls get_hash_file for each path of the list in turn, on one
\* accumulator, and may look at the digest (get_lowerhex) between calls;
\* k counts the calls that have returned, job[k + 1] is the call under way.
InitFile ==
  /\ dirs = <<>>
  /\ paths \in PathLists
  /\ num_threads = 1
  /\ hash0 \in InitialHashes
  /\ hash = hash0
  /\ pc = "file_call"
  /\ workers = <<>>
  /\ queue = <<>>
  /\ job = [i \in 1 .. Len(paths) |-> NewJob]
  /\ jobs = <<>>
  /\ k = 0
  /\ done_files = 0
  /\ events = <<>>
  /\ result = NoResult
  /\ foldOrder = <<>>
  /\ run = 1
  /\ prev = NoPrev

\* file.rs 22-29: get_hash_file(path, &mut hash) is entered.
FileCall ==
  /\ pc \in {"file_call", "peeked1", "peeked2"}
  /\ k < Len(paths)
  /\ job' = [job EXCEPT ![k + 1].st = "open", ![k + 1].pre = hash]
  /\ pc' = "file_run"
  /\ UNCHANGED <<dirs, paths, num_threads, hash, hash0, workers, queue, jobs, k,
                 done_files, events, result, foldOrder, run, prev>>

\* file.rs 30: File::open(path)?
FileOpen ==
  /\ pc = "file_run"
  /\ job[k + 1].st = "open"
  /\ IF OpenError(paths[k + 1]) # ""
       THEN job' = [job EXCEPT ![k + 1].st = "ret",
                               ![k + 1].res = OpenError(paths[k + 1])]
       ELSE job' = [job EXCEPT ![k + 1].st = "read", ![k + 1].pos = 0]
  /\ UNCHANGED <<dirs, paths, num_threads, hash, hash0, pc, workers, queue, jobs,
                 k, done_files, events, result, foldOrder, run, prev>>

\* file.rs 33-40: one iteration of the read loop.
FileRead ==
  /\ pc = "file_run"
  /\ job[k + 1].st = "read"
  /\ LET i == k + 1
         f == paths[i]
     IN  IF ReadFails(f, job[i].pos)
           THEN /\ job' = [job EXCEPT ![i].st = "ret",
                                      ![i].res = FS[f].read_err]
                /\ UNCHANGED hash
           ELSE \E n \in ReadSizes(f, job[i].pos) :
                  IF n = 0
                    THEN LET h == update(hash, Chunk(f, job[i].pos, n))
                         IN  /\ job' = [job EXCEPT
                                          ![i].st = "ret",
                                          ![i].res = "Ok",
                                          ![i].file_hash = get_lowerhex(h)]
                             /\ hash' = after_lowerhex(h)
                    ELSE /\ hash' = update(hash, Chunk(f, job[i].pos, n))
                         /\ job' = [job EXCEPT ![i].pos = job[i].pos + n]
  /\ UNCHANGED <<dirs, paths, num_threads, hash0, pc, workers, queue, jobs, k,
                 done_files, events, result, foldOrder, run, prev>>

\* file.rs 25: the Result<String, IOError> reaches the caller.
FileReturn ==
  /\ pc = "file_run"
  /\ job[k + 1].st = "ret"
  /\ result' = IF job[k + 1].res = "Ok" THEN Ok(job[k + 1].file_hash)
               ELSE Err(job[k + 1].res)
  /\ job' = [job EXCEPT ![k + 1].st = "joined"]
  /\ k' = k + 1
  /\ pc' = "file_call"
  /\ UNCHANGED <<dirs, paths, num_threads, hash, hash0, workers, queue, jobs,
                 done_files, events, foldOrder, run, prev>>

\* encoding.rs 6-10: get_lowerhex(&mut hash) called on its own, at most
\* twice in a row; prev keeps the accumulator as it was before the call and
\* the string of the call just before it.
Peek ==
  /\ pc \in {"file_call", "peeked1"}
  /\ result' = Ok(get_lowerhex(hash))
  /\ hash' = after_lowerhex(hash)
  /\ prev' = [NoPrev EXCEPT
               !.result = IF pc = "peeked1" THEN result ELSE NoResult,
               !.hash = hash]
  /\ pc' = IF pc = "file_call" THEN "peeked1" ELSE "peeked2"
  /\ UNCHANGED <<dirs, paths, num_threads, hash0, workers, queue, job, jobs, k,
                 done_files, events, foldOrder, run>>

NextFile == FileCall \/ FileOpen \/ FileRead \/ FileReturn \/ Peek

FileSpec == InitFile /\ [][NextFile]_vars

\* ------------------------------------- get_hash_folder, get_hash_folders
InitFolder ==
  /\ dirs \in DirLists
  /\ paths = <<>>
  /\ num_threads \in 1 .. MaxThreads
  /\ hash0 \in InitialHashes
  /\ hash = hash0
  /\ pc \in {"folder_call", "folders_call"}
  /\ pc = "folder_call" => Len(dirs) = 1
  /\ workers = <<>>
  /\ queue = <<>>
  /\ job = <<>>
  /\ jobs = <<>>
  /\ k = 0
  /\ done_files = 0
  /\ events = <<>>
  /\ result = NoResult
  /\ foldOrder = <<>>
  /\ run = 1
  /\ prev = NoPrev

\* The entry into get_hash_files with the collected list, or the panic of
\* the collection.
EnterWith(collected) ==
  IF collected.panic
    THEN /\ pc' = "panicked"
         /\ UNCHANGED <<paths, job>>
    ELSE /\ pc' = "call"
         /\ paths' = collected.files
         /\ job' = [i \in 1 .. Len(collected.files) |-> NewJob]

\* folder.rs 43-48: get_hash_files(&get_all_file_from_folder(dir), ..).
FolderCall ==
  /\ pc = "folder_call"
  /\ EnterWith(get_all_file_from_folder(dirs[1]))
  /\ UNCHANGED <<dirs, num_threads, hash, hash0, workers, queue, jobs, k,
                 done_files, events, result, foldOrder, run, prev>>

\* folder.rs 88-94: collect over all dirs, then one get_hash_files call.
FoldersCall ==
  /\ pc = "folders_call"
  /\ EnterWith(collect_folders(dirs))
  /\ UNCHANGED <<dirs, num_threads, hash, hash0, workers, queue, jobs, k,
                 done_files, events, result, foldOrder, run, prev>>

\* The caller's own walk over the roots, one after the other, as the test
\* of get_hash_files does it (file.rs 150-157).
RECURSIVE CallerWalk(_)
CallerWalk(ds) ==
  IF ds = <<>> THEN <<>>
  ELSE get_all_file_from_folder(Head(ds)).files \o CallerWalk(Tail(ds))

\* After get_hash_folder(s) has returned the caller walks the same roots
\* itself and calls get_hash_files on the list, with an accumulator equal
\* to the first one and the same num_threads.
RerunFiles ==
  /\ pc = "done"
  /\ run < MaxRuns
  /\ prev' = [result |-> result, hash |-> hash, events |-> events,
              num_threads |-> num_threads, foldOrder |-> foldOrder]
  /\ run' = run + 1
  /\ paths' = CallerWalk(dirs)
  /\ hash' = hash0
  /\ pc' = "call"
  /\ workers' = <<>>
  /\ queue' = <<>>
  /\ job' = [i \in 1 .. Len(paths') |-> NewJob]
  /\ jobs' = <<>>
  /\ k' = 0
  /\ done_files' = 0
  /\ events' = <<>>
  /\ result' = NoResult
  /\ foldOrder' = <<>>
  /\ UNCHANGED <<dirs, num_threads, hash0>>

NextFolder ==
  \/ FolderCall
  \/ FoldersCall
  \/ CheckEmpty
  \/ BuildPool
  \/ Install
  \/ \E w \in 1 .. MaxThreads : WorkerTake(w)
  \/ \E w \in 1 .. MaxThreads : JobOpen(w)
  \/ \E w \in 1 .. MaxThreads : JobRead(w)
  \/ \E w \in 1 .. MaxThreads : JobFold(w)
  \/ InstallReturn
  \/ BeginReport
  \/ Report
  \/ Return
  \/ RerunFiles

FolderSpec == InitFolder /\ [][NextFolder]_vars

\* ------------------------------------------------- the whole public API
\* Any of the entry points: get_hash_files, get_hash_file called directly,
\* get_hash_folder and get_hash_folders.
InitApi == Init \/ InitFile \/ InitFolder

NextApi == Next \/ NextFile \/ FolderCall \/ FoldersCall

ApiSpec == InitApi /\ [][NextApi]_vars

\* The steps of one call: the calling thread runs on (it is never suspended
\* for good) and a pool with an idle worker takes an injected job.
CallSteps ==
  \/ CheckEmpty
  \/ BuildPool
  \/ Install
  \/ \E w \in 1 .. MaxThreads : WorkerTake(w)
  \/ \E w \in 1 .. MaxThreads : JobOpen(w)
  \/ \E w \in 1 .. MaxThreads : JobRead(w)
  \/ \E w \in 1 .. MaxThreads : JobFold(w)
  \/ InstallReturn
  \/ BeginReport
  \/ Report
  \/ Return

\* One call on a fresh accumulator, run to its end.
InitOneCall == Init /\ hash0 = <<>> /\ Len(paths) <= MaxLivePaths

FairSpec == InitOneCall /\ [][CallSteps]_vars /\ WF_vars(CallSteps)

\* --------------------------------- a num_threads the pool may not accept
\* One call of get_hash_files with any num_threads of ThreadCounts, the
\* rejected one included, run to its end or to its panic.
InitPool ==
  /\ dirs = <<>>
  /\ paths \in PathLists
  /\ Len(paths) <= MaxLivePaths
  /\ num_threads \in ThreadCounts
  /\ hash0 \in InitialHashes
  /\ hash = hash0
  /\ pc = "call"
  /\ workers = <<>>
  /\ queue = <<>>
  /\ job = [i \in 1 .. Len(paths) |-> NewJob]
  /\ jobs = <<>>
  /\ k = 0
  /\ done_files = 0
  /\ events = <<>>
  /\ result = NoResult
  /\ foldOrder = <<>>
  /\ run = 1
  /\ prev = NoPrev

PoolSpec == InitPool /\ [][CallSteps]_vars

\* ------------------------------------------------------------ properties
\* What the file system makes of a file: the error kind its job ends with
\* ("" when the file is hashed to the end).
FailKind(f) ==
  IF FS[f].open_err # "" THEN FS[f].open_err
  ELSE IF FS[f].read_err_at >= 0 THEN FS[f].read_err ELSE ""

Positions == 1 .. Len(paths)
FailingPositions == {i \in Positions : FailKind(paths[i]) # ""}
Returned == pc = "done"
Running(i) == job[i].st \in {"open", "read", "fold"}
YieldsUpTo(m) == {x \in 1 .. m : events[x].tag = "Yield"}
ErrorsUpTo(m) == {x \in 1 .. m : events[x].tag = "Error"}

\* C1: with an empty path list get_hash_files returns Err(InvalidInput) at
\* once: the pool is never built, the accumulator keeps its contents and no
\* progress event is delivered.
C1_EmptyListRejected ==
  paths = <<>> =>
    /\ pc \in {"call", "done"}
    /\ hash = hash0
    /\ workers = <<>>
    /\ foldOrder = <<>>
    /\ events = <<>>
    /\ Returned => result = Err("InvalidInput")

C1_Witness ==
  paths = <<>> /\ Returned /\ result.tag = "Err" /\ hash0 # <<>>

\* C2: with a non-empty path list get_hash_files returns Ok with the hex
\* digest of the accumulator's final state, also when files failed, and every
\* path's job has run: each readable file, whatever failed before it, ended
\* Ok with its bytes and hex string folded in.
C2_BatchSurvivesFailures ==
  (Returned /\ paths # <<>>) =>
    /\ result = Ok(HEXLOWER_encode(<<Mix(hash)>>))
    /\ Len(jobs) = Len(paths)
    /\ \A i \in Positions :
         /\ job[i].st = "joined"
         /\ FailKind(paths[i]) = "" =>
              /\ job[i].res = "Ok"
              /\ \E x \in 1 .. Len(foldOrder) : foldOrder[x] = i

C2_Witness ==
  /\ Returned
  /\ Len(paths) = 3
  /\ FailKind(paths[1]) # ""
  /\ FailKind(paths[2]) # ""
  /\ FailKind(paths[3]) = ""
  /\ result.tag = "Ok"
  /\ job[3].res = "Ok"

\* C3: a job that failed, at open or at a read after some chunks, left the
\* accumulator as it was when the job started.
C3_FailedJobFoldsNothing ==
  \A i \in Positions :
    (job[i].st = "ret" /\ job[i].res # "Ok") => hash = job[i].pre

C5_SingleWorkerDeterministic ==
  (Returned /\ run > 1 /\ num_threads = 1 /\ prev.num_threads = 1) =>
    result = prev.result

C5_Witness ==
  /\ Returned
  /\ run > 1
  /\ num_threads = 1
  /\ prev.num_threads = 1
  /\ result.tag = "Ok"
  /\ \E i \in Positions : paths[i] = "b"
  /\ Len(paths) > 1

\* C6: at any time at most one job is inside its closure, and while one is,
\* the calling thread is blocked in install; and while the call is in flight
\* every change of the accumulator is a step of the job that is running.
AccumulatorUsers == {i \in Positions : Running(i)}

C6_ExclusiveAccess ==
  /\ [](/\ Cardinality(AccumulatorUsers) <= 1
        /\ AccumulatorUsers # {} => pc = "blocked")
  /\ [][(pc # "done" /\ hash' # hash) =>
          \E i \in AccumulatorUsers :
            /\ job'[i] # job[i]
            /\ \A j \in Positions \ {i} : job'[j] = job[j]]_vars

C6_Witness ==
  /\ num_threads > 1
  /\ \E i \in Positions :
       /\ i > 1
       /\ job[i].st = "read"
       /\ job[i].pos > 0
       /\ AccumulatorUsers = {i}

\* C7 as stated: the value of every Yield event is the number of files that
\* have succeeded up to and including that one.
C7_YieldCountsSuccesses ==
  \A m \in 1 .. Len(events) :
    events[m].tag = "Yield" => events[m].n = Cardinality(YieldsUpTo(m))

\* C7 as amended: done_files is incremented for every job reported, failed
\* or not, so the value of a Yield event is the number of events delivered
\* up to and including it, failures counted.
C7_YieldCountsReportedJobs ==
  /\ done_files = Len(events)
  /\ \A m \in 1 .. Len(events) :
       events[m].tag = "Yield" =>
         events[m].n = Cardinality(YieldsUpTo(m)) + Cardinality(ErrorsUpTo(m))

C7_Witness ==
  /\ Returned
  /\ Len(events) = 3
  /\ events[1].tag = "Error"
  /\ events[2] = Yield(2)
  /\ events[3] = Yield(3)

\* C8: when no file fails, the call delivers exactly the events Yield(1),
\* Yield(2), ..., Yield(N), in this order, and no Error event.
C8_AllYieldsWhenNoFailure ==
  (Returned /\ paths # <<>> /\ FailingPositions = {}) =>
    events = [m \in Positions |-> Yield(m)]

C8_Witness ==
  /\ Returned
  /\ Len(paths) = 3
  /\ FailingPositions = {}
  /\ num_threads > 1
  /\ Len(events) = 3

\* C9: the call delivers one event per path: as many Error events as there
\* are failing files in the list, and a Yield event for each other path.
C9_OneEventPerPath ==
  (Returned /\ paths # <<>>) =>
    /\ Len(events) = Len(paths)
    /\ Cardinality(ErrorsUpTo(Len(events))) = Cardinality(FailingPositions)
    /\ Cardinality(YieldsUpTo(Len(events)))
         = Len(paths) - Cardinality(FailingPositions)

C9_Witness ==
  /\ Returned
  /\ Len(paths) = 3
  /\ Cardinality(FailingPositions) = 1
  /\ Cardinality(ErrorsUpTo(Len(events))) = 1
  /\ Cardinality(YieldsUpTo(Len(events))) = 2

\* C10: events are delivered in path-list order: the m-th event delivered
\* is the event of the path at position m, an Error with that file's error,
\* or Yield(m).
C10_EventsInSubmissionOrder ==
  \A m \in 1 .. Len(events) :
    events[m] = IF FailKind(paths[m]) # "" THEN Error(FailKind(paths[m]))
                ELSE Yield(m)

C10_Witness ==
  /\ Returned
  /\ num_threads > 1
  /\ Len(events) = 3
  /\ events[1] = Error("NotFound")
  /\ events[2] = Yield(2)
  /\ events[3] = Error("Other")

\* C11: progress is reported as each file completes: once the job of the
\* path at position i has finished and the caller has gone on to a later
\* path, the event of position i has been delivered.
C11_ProgressAsEachFileCompletes ==
  \A i, j \in Positions :
    (i < j /\ job[i].st = "joined" /\ job[j].st # "new") => Len(events) >= i

\* C12: a call over a non-empty list eventually returns; when it has
\* returned every path's job has finished, the pool holds no job, one event
\* per path has been delivered, and nothing of the call runs afterwards.
C12_ReturnsAfterAllJobs ==
  /\ (pc = "call" /\ paths # <<>>) ~> Returned
  /\ []((Returned /\ paths # <<>>) =>
          /\ \A i \in Positions : job[i].st = "joined"
          /\ \A w \in DOMAIN workers : workers[w] = 0
          /\ queue = <<>>
          /\ Len(events) = Len(paths)
          /\ result.tag = "Ok")
  /\ [][(Returned /\ Returned') =>
          (events' = events /\ hash' = hash /\ job' = job)]_vars

C12_Witness ==
  /\ Returned
  /\ Len(paths) = 2
  /\ num_threads > 1
  /\ \A i \in Positions : job[i].st = "joined"
  /\ Len(events) = 2
  /\ \E i \in Positions : paths[i] = "b"

\* The bytes of the file at position i, and the hex string of the digest of
\* a byte sequence.
ContentAt(i) == FS[paths[i]].content
HexOf(bytes) == HEXLOWER_encode(<<Mix(bytes)>>)
Succeeded(i) == job[i].st \in {"ret", "joined"} /\ job[i].res = "Ok"

\* C13: get_hash_file on a fresh accumulator, whatever sizes the reads
\* return, feeds the file's bytes in order, each once (after reading pos
\* bytes the accumulator holds the first pos bytes), and returns the hex
\* digest of the whole content fed in one update.
C13_StreamingEqualsOneUpdate ==
  \A i \in Positions :
    job[i].pre = <<>> =>
      /\ job[i].st = "read" => hash = SubSeq(ContentAt(i), 1, job[i].pos)
      /\ Succeeded(i) => job[i].file_hash = HexOf(<<>> \o ContentAt(i))
      /\ (Succeeded(i) /\ job[i].st = "ret") => hash = ContentAt(i)

C13_Witness ==
  /\ pc = "file_run"
  /\ k = 0
  /\ paths[1] = "b"
  /\ hash0 = <<>>
  /\ job[1].st = "ret"
  /\ job[1].res = "Ok"

\* C14: get_hash_file never resets the accumulator: when a call succeeds
\* the accumulator holds what it held before followed by the file's bytes,
\* the string returned is the hex digest of that, and a successful call for
\* B right after one for A returns the hex digest of (contents before A)
\* ++ A ++ B.
C14_CallsCompound ==
  /\ \A i \in Positions :
       (Succeeded(i) /\ job[i].st = "ret") =>
         /\ hash = job[i].pre \o ContentAt(i)
         /\ job[i].file_hash = HexOf(job[i].pre \o ContentAt(i))
  /\ \A i \in Positions :
       (i > 1 /\ Succeeded(i - 1) /\ Succeeded(i)) =>
         job[i].file_hash
           = HexOf(job[i - 1].pre \o ContentAt(i - 1) \o ContentAt(i))
  /\ (pc = "file_call" /\ k > 0 /\ job[k].res = "Ok") =>
       result = Ok(job[k].file_hash)

C14_Witness ==
  /\ pc = "file_call"
  /\ k = 2
  /\ hash0 = <<9>>
  /\ paths[1] = "a"
  /\ paths[2] = "b"
  /\ result = Ok(HexOf(<<9, 1, 2, 3, 4>>))
  /\ hash = <<9, 1, 2, 3, 4>>

\* C16: get_lowerhex is a peek: after it the accumulator is what it was
\* before the call, so whatever is fed next meets the same state; the
\* string is the hex digest of the accumulator, and a second call right
\* after the first returns the same string.
C16_LowerhexIsAPeek ==
  pc \in {"peeked1", "peeked2"} =>
    /\ hash = prev.hash
    /\ result = Ok(HexOf(prev.hash))
    /\ pc = "peeked2" => result = prev.result

C16_Witness ==
  /\ pc = "peeked2"
  /\ k > 0
  /\ hash # <<>>
  /\ hash = prev.hash
  /\ result.tag = "Ok"
  /\ result = prev.result

\* The lists of the roots, the regular files found under a directory, and
\* where the list of the r-th root starts in the combined list.
ListOf(r) == get_all_file_from_folder(dirs[r]).files
RootPositions == 1 .. Len(dirs)

RECURSIVE FilesUnder(_)
FilesUnder(d) ==
  UNION {IF Tree[d][x].kind = "file" THEN {Tree[d][x].name}
         ELSE IF Tree[d][x].kind = "dir" THEN FilesUnder(Tree[d][x].name)
         ELSE {} : x \in 1 .. Len(Tree[d])}

RECURSIVE OffsetOf(_)
OffsetOf(r) == IF r = 1 THEN 0 ELSE OffsetOf(r - 1) + Len(ListOf(r - 1))

InGetHashFiles == pc \notin {"folder_call", "folders_call", "panicked"}

\* C17: get_hash_folder(dir) and get_hash_folders(dirs) behave as one
\* get_hash_files call over the list(s) of get_all_file_from_folder: the
\* caller who walks the roots and calls get_hash_files gets the same return
\* value, the same final accumulator and the same events; and when no root
\* holds a regular file the call returns InvalidInput and leaves the
\* accumulator and the event stream untouched.
C17_FolderIsFilesOverCollected ==
  /\ (Returned /\ run = 2) =>
       /\ result = prev.result
       /\ hash = prev.hash
       /\ events = prev.events
  /\ (Returned /\ run = 1 /\ \A r \in RootPositions : ListOf(r) = <<>>) =>
       /\ result = Err("InvalidInput")
       /\ hash = hash0
       /\ events = <<>>

C17_Witness ==
  /\ Returned
  /\ run = 2
  /\ dirs = <<"d1", "sub">>
  /\ result.tag = "Ok"
  /\ result = prev.result
  /\ Len(events) = 5
  /\ events = prev.events

\* C18: get_all_file_from_folder never fails or aborts: whatever errors
\* during the walk is dropped, the call of get_hash_folder(s) goes on.
C18_CollectorNeverAborts == pc # "panicked"

\* C19: the list get_hash_folder(s) hands to get_hash_files holds regular
\* files found under the roots and nothing else, is the lists of the roots
\* one after the other in root-list order, and holds a file once for every
\* root it is reachable from; every occurrence gets its own job and event.
C19_RegularFilesPerRootInOrder ==
  (run = 1 /\ InGetHashFiles) =>
    /\ \A i \in Positions :
         \E r \in RootPositions : paths[i] \in FilesUnder(dirs[r])
    /\ \A f \in Files :
         Cardinality({i \in Positions : paths[i] = f})
           = Cardinality({r \in RootPositions : f \in FilesUnder(dirs[r])})
    /\ Len(paths) = OffsetOf(Len(dirs) + 1)
    /\ \A r \in RootPositions :
         SubSeq(paths, OffsetOf(r) + 1, OffsetOf(r) + Len(ListOf(r)))
           = ListOf(r)
    /\ Returned =>
         /\ \A i \in Positions : job[i].st = "joined"
         /\ Len(events) = Len(paths)

C19_Witness ==
  /\ Returned
  /\ run = 1
  /\ dirs = <<"d1", "sub">>
  /\ paths = <<"a", "b", "missing", "b", "missing">>
  /\ job[2].res = "Ok"
  /\ job[4].res = "Ok"
  /\ Len(events) = 5

\* C15: when the open fails the call of get_hash_file ends with the error
\* of the open, of the same kind, and the accumulator is what it was when
\* the call began; called directly, that error is the value returned, and in
\* get_hash_files it is the error of the Error event of that path.
C15_OpenErrorPassedOn ==
  \A i \in Positions :
    FS[paths[i]].open_err # "" =>
      /\ job[i].st \in {"ret", "joined"} => job[i].res = FS[paths[i]].open_err
      /\ job[i].st = "ret" => hash = job[i].pre
      /\ (pc = "file_call" /\ k = i) => result = Err(FS[paths[i]].open_err)
      /\ Len(events) >= i => events[i] = Error(FS[paths[i]].open_err)

C15_Witness ==
  /\ Returned
  /\ Len(paths) = 3
  /\ paths[2] = "missing"
  /\ job[2].res = "NotFound"
  /\ job[2].pre # <<>>
  /\ events[2] = Error("NotFound")

\* C20: every string returned by a successful call, of get_hash_file
\* (directly or inside a job), get_hash_files or get_hash_folder(s), has
\* twice as many characters as the digest has bytes, all of them lowercase
\* hex digits.
IsLowerHex(str) ==
  /\ Len(str) = 2 * Len(finalize(<<>>))
  /\ \A x \in 1 .. Len(str) : str[x] \in (48 .. 57) \cup (97 .. 102)

C20_FixedLengthLowerHex ==
  /\ result.tag = "Ok" => IsLowerHex(result.hex)
  /\ \A i \in Positions : Succeeded(i) => IsLowerHex(job[i].file_hash)

C20_Witness ==
  /\ Returned
  /\ result.tag = "Ok"
  /\ Len(result.hex) = 2
  /\ FailingPositions # {}
  /\ \E i \in Positions : paths[i] = "empty" /\ job[i].res = "Ok"
  /\ \E x \in 1 .. 2 : result.hex[x] >= 97

\* S_i of the recurrence: S_0 is the accumulator the call was given, and
\* S_i = S_(i-1) ++ content(p_i) ++ hex(H(S_(i-1) ++ content(p_i))).
RECURSIVE FoldedUpTo(_)
FoldedUpTo(i) ==
  IF i = 0 THEN hash0
  ELSE LET fed == FoldedUpTo(i - 1) \o ContentAt(i)
       IN  fed \o HexOf(fed)

\* C21: over paths whose files all succeed, once the job of position i has
\* finished and no later job has touched the accumulator it holds S_i; the
\* hex string of job i is the digest of everything accumulated so far; and
\* when the call has returned the accumulator holds S_n and the string
\* returned is hex(H(S_n)).
C21_FoldRecurrence ==
  FailingPositions = {} =>
    /\ \A i \in Positions :
         (/\ job[i].st \in {"ret", "joined"}
          /\ \A j \in Positions : j > i => job[j].st \in {"new", "queued"}) =>
           /\ hash = FoldedUpTo(i)
           /\ job[i].file_hash = HexOf(FoldedUpTo(i - 1) \o ContentAt(i))
    /\ (Returned /\ paths # <<>>) =>
         /\ hash = FoldedUpTo(Len(paths))
         /\ result = Ok(HexOf(FoldedUpTo(Len(paths))))

\* Two files on an accumulator that was already used: the string folded in
\* after the second file is not the digest of that file alone.
C21_Witness ==
  /\ Returned
  /\ hash0 # <<>>
  /\ paths = <<"b", "a">>
  /\ num_threads > 1
  /\ hash = FoldedUpTo(2)
  /\ job[2].file_hash # HexOf(ContentAt(2))
  /\ result = Ok(HexOf(hash))

\* C22: a repeated call over the same accumulator contents, path list and
\* files returns the same value, leaves the same accumulator and delivers
\* the same events, whatever num_threads the two calls were given; and the
\* job of a path is not handed to the pool before the jobs of all earlier
\* paths have finished and been joined.
C22_SameForEveryThreadCount ==
  /\ (Returned /\ run > 1) =>
       /\ result = prev.result
       /\ hash = prev.hash
       /\ events = prev.events
  /\ \A i, j \in Positions :
       (i < j /\ job[j].st # "new") => job[i].st = "joined"

C22_Witness ==
  /\ Returned
  /\ run > 1
  /\ num_threads # prev.num_threads
  /\ Len(paths) = 3
  /\ FailingPositions # {}
  /\ FailingPositions # Positions
  /\ result.tag = "Ok"
  /\ result = prev.result
  /\ Len(events) = 3

\* C23: when build() rejects num_threads, a call over a non-empty list
\* gets no further than the unwrap, where it panics: it returns nothing (no
\* IOError either), no job was created or run and no file opened, the
\* accumulator is what the caller passed in and no event was delivered;
\* over an empty list the call never reaches the pool and returns
\* Err(InvalidInput).
C23_RejectedPoolPanics ==
  BuildFails(num_threads) =>
    /\ paths # <<>> =>
         /\ pc \in {"call", "build", "build_panicked"}
         /\ result = NoResult
         /\ \A i \in Positions : job[i].st = "new"
         /\ workers = <<>>
         /\ queue = <<>>
         /\ hash = hash0
         /\ foldOrder = <<>>
         /\ events = <<>>
    /\ paths = <<>> =>
         /\ pc \in {"call", "done"}
         /\ pc = "done" => result = Err("InvalidInput")
         /\ hash = hash0
         /\ events = <<>>

C23_Witness ==
  /\ BuildFails(num_threads)
  /\ pc = "build_panicked"
  /\ Len(paths) = 2
  /\ hash0 # <<>>
  /\ hash = hash0
  /\ result = NoResult

====
